---- MODULE Spec2Model ----
(***************************************************************************)
(* Color Clash: the wallet-authentication service, its two tables, the     *)
(* RewardDistributor contract and the distribute-reward endpoint, as state *)
(* machines translated from the sources.                                   *)
(***************************************************************************)
EXTENDS Integers, Sequences, FiniteSets, TLC

(***************************************************************************)
(* Bounds of the model                                                     *)
(***************************************************************************)
\* clock steps taken
MaxTicks == 1
\* challenges signed by wallets
MaxSigned == 1
\* authenticate calls received
MaxCalls == 2

(***************************************************************************)
(* Values                                                                  *)
(***************************************************************************)
\* an absent social field (undefined / null)
None == "none"

\* an absent text field: undefined and "" are the same to the handler's !field
NoText == <<>>

\* an absent timestamp: undefined and 0 are the same to !timestamp
NoTimestamp == 0

\* 5 * 60 * 1000 ms
fiveMinutes == 5 * 60 * 1000

\* 7 * 24 * 60 * 60 * 1000 ms
sevenDays == 7 * 24 * 60 * 60 * 1000

\* the server clock at the start (ms), far enough from 0 that now - 5min > 0
Epoch == 1000000

\* how far one step moves the clock
TickSteps == {fiveMinutes, fiveMinutes + 1}

\* the wallet (key pair) of the player who signs in, and the holder of
\* another address, who signs nothing
Wallets == {"w1"}

Holders == {"w1", "w2"}

\* the checksummed (mixed-case) text of a wallet's address
AddressText(w) ==
    IF w = "w1" THEN <<"0", "x", "A", "b">> ELSE <<"0", "x", "c", "D">>

\* what a signature over another message recovers to: an address of no wallet
StrayAddress == <<"0", "x", "E", "e">>

LowerChar(c) ==
    CASE c = "A" -> "a"
      [] c = "B" -> "b"
      [] c = "C" -> "c"
      [] c = "D" -> "d"
      [] c = "E" -> "e"
      [] c = "F" -> "f"
      [] c = "X" -> "x"
      [] OTHER -> c

\* String.prototype.toLowerCase
toLowerCase(s) == [i \in DOMAIN s |-> LowerChar(s[i])]

\* the address texts a request may carry: checksummed and lowercase
AddressForms(w) == {AddressText(w), toLowerCase(AddressText(w))}

AllAddressForms == UNION {AddressForms(w) : w \in Holders}

\* an absent message
NoMessage == [wallet |-> NoText, ts |-> NoTimestamp]

\* a signature that ethers cannot parse, and an absent one
Malformed == [kind |-> "malformed", signer |-> None, msg |-> NoMessage]

NoSignature == [kind |-> "absent", signer |-> None, msg |-> NoMessage]

\* the challenge text of authenticateWithWallet: fixed wording around the
\* wallet address and the millisecond timestamp
Challenge(walletAddress, timestamp) ==
    [wallet |-> walletAddress, ts |-> timestamp]

\* signer.signMessage(message): the personal-sign signature of a wallet
signMessage(w, message) == [kind |-> "signature", signer |-> w, msg |-> message]

\* ethers.verifyMessage(message, signature): the signer's checksummed address
\* when the signature is over this message, some other address when it is over
\* another one; throws on a signature it cannot parse
verifyMessage(message, signature) ==
    IF signature.kind # "signature" THEN <<"throw">>
    ELSE IF signature.msg = message THEN AddressText(signature.signer)
    ELSE StrayAddress

\* Math.abs
Abs(x) == IF x < 0 THEN -x ELSE x

\* btoa(JSON.stringify(sessionData)): an injective encoding of the four fields
SessionToken(userId, walletAddress, timestamp, expiresAt) ==
    <<"session", userId, walletAddress, timestamp, expiresAt>>

(***************************************************************************)
(* State                                                                   *)
(***************************************************************************)
VARIABLES
    now,            \* Date.now() of the server, ms
    ticks,          \* clock steps taken
    signed,         \* the challenge signatures wallets have produced
    user_profiles,  \* table user_profiles: a set of rows
    auth_sessions,  \* table auth_sessions: a set of rows
    nextId,         \* gen_random_uuid(): the next fresh id
    calls,          \* authenticate calls received
    handler,        \* per request slot: where the handler is and its locals
    last,           \* the authenticate call that has just returned: its request
                    \* and response, until the response is delivered
    consumed        \* history: the (message, signature, timestamp) values of
                    \* the calls that have succeeded

authVars == <<now, ticks, signed, user_profiles, auth_sessions, nextId, calls,
              handler, last, consumed>>

VARIABLES
    owner,          \* Ownable._owner of the RewardDistributor
    paused,         \* Pausable._paused
    ccToken,        \* the token the contract pays from
    balances,       \* balanceOf, per token and holder
    usedNonces,     \* the voucher hashes marked used
    vouchers,       \* the voucher signatures made off-chain
    redeemed,       \* the (recipient, amount, nonce) triples paid out so far
    txs,            \* transactions mined
    tx,             \* the transaction just mined or reverted, until seen
    dr,             \* the distribute-reward handler: where it is, its locals
    drLast          \* the distribute-reward call that has just returned

chainVars == <<owner, paused, ccToken, balances, usedNonces, vouchers, redeemed,
               txs, tx>>

drVars == <<dr, drLast>>

VARIABLES
    client,         \* per browser: localStorage token, and the React state
                    \* user and isAuthenticated of useAuth
    updates         \* stats updates sent

VARIABLES
    roulette,       \* RouletteScreen: "ready", "spinning" (the wheel has landed
                    \* and its claim is running) or "done" (onResult was called)
    modal,          \* App.claimedReward and the state of the RewardClaimedModal
                    \* it mounts: reward (0 when no modal is shown), isClaiming,
                    \* claimed
    run             \* the claim attempt in flight: who started it, where it is,
                    \* its locals, and the response of the last attempt

claimVars == <<roulette, modal, run>>

VARIABLES
    app,            \* per browser: the useAuth instance of the App component,
                    \* its user and whether its mount effect has run
    authState       \* per browser: loading and authError of the useAuth
                    \* instance that authenticates

VARIABLES
    playerScores,        \* ScoreRecorder: per player, the score records kept
    playerStats,         \* per player: totalGames, highestScore, totalScore,
                         \* lastGameTimestamp
    totalGamesPlayed,    \* per player
    highestScore,        \* per player
    totalScoresRecorded,
    uniquePlayers,
    blockTimestamp,      \* block.timestamp of the next block
    scoreLog             \* per player, the ScoreRecorded events emitted so far

scoreVars == <<playerScores, playerStats, totalGamesPlayed, highestScore,
               totalScoresRecorded, uniquePlayers, blockTimestamp, scoreLog>>

clientVars == <<client, updates, claimVars, app, authState, scoreVars>>

vars == <<authVars, chainVars, drVars, clientVars>>

Slots == {1, 2}

Idle == [pc |-> "idle"]

NoCall == [status |-> 0]

\* no row (null)
NoRow ==
    [id |-> 0, wallet_address |-> NoText, farcaster_fid |-> None, username |-> None,
     total_games |-> 0, total_wins |-> 0, total_tokens_won |-> 0, updated_at |-> 0]

NoToken == <<>>

(***************************************************************************)
(* The tables                                                              *)
(***************************************************************************)
\* .from("user_profiles").select("*").eq("wallet_address", a).maybeSingle()
ProfileByAddress(a) ==
    IF \E r \in user_profiles : r.wallet_address = a
    THEN CHOOSE r \in user_profiles : r.wallet_address = a
    ELSE NoRow

ProfileById(id) ==
    IF \E r \in user_profiles : r.id = id
    THEN CHOOSE r \in user_profiles : r.id = id
    ELSE NoRow

\* a table without the UNIQUE constraint on wallet_address
InsertWithoutUnique(row) == TRUE

\* wallet_address text UNIQUE NOT NULL
ProfileInsertAllowed(row) ==
    \A r \in user_profiles : r.wallet_address # row.wallet_address

\* session_token text UNIQUE NOT NULL, user_id REFERENCES user_profiles(id)
SessionInsertAllowed(row) ==
    /\ \A r \in auth_sessions : r.session_token # row.session_token
    /\ \E p \in user_profiles : p.id = row.user_id

(***************************************************************************)
(* authenticate-wallet: the request handler                                *)
(***************************************************************************)
\* !walletAddress || !signedMessage || !message || !timestamp
MissingFields(body) ==
    \/ body.walletAddress = NoText
    \/ body.signedMessage = NoSignature
    \/ body.message = NoMessage
    \/ body.timestamp = NoTimestamp

\* a freshness check that also rejects the boundary itself
ExpiredAtBoundary(n, timestamp) == Abs(n - timestamp) >= fiveMinutes

\* Math.abs(now - timestamp) > fiveMinutes
Expired(n, timestamp) == Abs(n - timestamp) > fiveMinutes

\* walletAddress.toLowerCase()
NormalizedAddress(walletAddress) == toLowerCase(walletAddress)

\* a verification that does not compare the recovered address
VerifyWithoutCompare(body) ==
    IF verifyMessage(body.message, body.signedMessage) = <<"throw">> THEN "failed"
    ELSE "ok"

\* the try block around verifyMessage: "ok", "invalid" or "failed"
VerifySignature(body) ==
    LET recoveredAddress == verifyMessage(body.message, body.signedMessage)
    IN  IF recoveredAddress = <<"throw">> THEN "failed"
        ELSE IF toLowerCase(recoveredAddress) # NormalizedAddress(body.walletAddress)
             THEN "invalid"
        ELSE "ok"

\* the two tables as a call finds them
Tables == [user_profiles |-> user_profiles, auth_sessions |-> auth_sessions]

\* a failure response, with the call it answers and the tables it found;
\* fault: the database was failing (an error no constraint explains)
Failure(body, n, status, error, before) ==
    [status |-> status, success |-> FALSE, error |-> error, req |-> body,
     now |-> n, sessionToken |-> NoToken, userProfile |-> NoRow, before |-> before,
     fault |-> FALSE]

\* lines 40-74: parse, required fields, freshness, signature
AuthValidate(s, body) ==
    /\ UNCHANGED consumed
    /\ last = NoCall
    /\ UNCHANGED <<chainVars, drVars, clientVars>>
    /\ handler[s].pc = "idle"
    /\ \A r \in Slots : r < s => handler[r].pc # "idle"
    /\ calls < MaxCalls
    /\ calls' = calls + 1
    /\ IF MissingFields(body)
       THEN /\ last' = Failure(body, now, 400, "Missing required fields", Tables)
            /\ UNCHANGED handler
       ELSE IF Expired(now, body.timestamp)
       THEN /\ last' = Failure(body, now, 401, "Signature expired. Please try again.", Tables)
            /\ UNCHANGED handler
       ELSE IF VerifySignature(body) = "invalid"
       THEN /\ last' = Failure(body, now, 401, "Invalid signature", Tables)
            /\ UNCHANGED handler
       ELSE IF VerifySignature(body) = "failed"
       THEN /\ last' = Failure(body, now, 401, "Signature verification failed", Tables)
            /\ UNCHANGED handler
       ELSE /\ handler' = [handler EXCEPT ![s] =
                    [pc |-> "lookup", body |-> body, now |-> now,
                     normalizedAddress |-> NormalizedAddress(body.walletAddress),
                     existingUser |-> NoRow, userProfile |-> NoRow, before |-> Tables]]
            /\ UNCHANGED last
    /\ UNCHANGED <<now, ticks, signed, user_profiles, auth_sessions, nextId>>

\* lines 76-88: look the identity up by normalized address
AuthLookup(s) ==
    /\ UNCHANGED consumed
    /\ last = NoCall
    /\ UNCHANGED <<chainVars, drVars, clientVars>>
    /\ handler[s].pc = "lookup"
    /\ \E fetchError \in BOOLEAN :
        IF fetchError
        THEN /\ last' = [Failure(handler[s].body, handler[s].now, 500,
                                 "Database error", handler[s].before)
                            EXCEPT !.fault = TRUE]
             /\ handler' = [handler EXCEPT ![s] = Idle]
        ELSE LET existingUser == ProfileByAddress(handler[s].normalizedAddress)
             IN  /\ handler' = [handler EXCEPT ![s].existingUser = existingUser,
                                   ![s].pc = IF existingUser # NoRow THEN "update"
                                             ELSE "insert"]
                 /\ UNCHANGED last
    /\ UNCHANGED <<now, ticks, signed, user_profiles, auth_sessions, nextId, calls>>

\* an update that writes every social field the request carries
UpdateDataOverwrite(existingUser, body, at) ==
    [updated_at |-> at,
     farcaster_fid |-> IF body.farcasterFid # None THEN body.farcasterFid ELSE "keep",
     username |-> IF body.username # None THEN body.username ELSE "keep"]

\* lines 93-102: updated_at always, a social field only where the row read
\* earlier has none
UpdateData(existingUser, body, at) ==
    [updated_at |-> at,
     farcaster_fid |-> IF body.farcasterFid # None /\ existingUser.farcaster_fid = None
                       THEN body.farcasterFid ELSE "keep",
     username |-> IF body.username # None /\ existingUser.username = None
                  THEN body.username ELSE "keep"]

\* an update that writes the whole row the way the insert does, counters at 0
ApplyAsUpsert(row, updateData) ==
    [row EXCEPT !.updated_at = updateData.updated_at,
                !.total_games = 0, !.total_wins = 0, !.total_tokens_won = 0]

\* .update(updateData): the columns named are set, the others kept
ApplyUpdate(row, updateData) ==
    [row EXCEPT !.updated_at = updateData.updated_at,
                !.farcaster_fid = IF updateData.farcaster_fid = "keep" THEN @
                                  ELSE updateData.farcaster_fid,
                !.username = IF updateData.username = "keep" THEN @
                             ELSE updateData.username]

\* lines 92-116: the identity exists: update it; an update error is logged and
\* the row read earlier is used
AuthUpdate(s) ==
    /\ UNCHANGED consumed
    /\ last = NoCall
    /\ UNCHANGED <<chainVars, drVars, clientVars>>
    /\ handler[s].pc = "update"
    /\ \E updateError \in BOOLEAN :
        LET h == handler[s]
            row == ProfileById(h.existingUser.id)
            updatedUser == ApplyUpdate(row, UpdateData(h.existingUser, h.body, now))
        IN  IF updateError \/ row = NoRow
            THEN /\ handler' = [handler EXCEPT ![s].userProfile = h.existingUser,
                                               ![s].pc = "session"]
                 /\ UNCHANGED user_profiles
            ELSE /\ user_profiles' = (user_profiles \ {row}) \cup {updatedUser}
                 /\ handler' = [handler EXCEPT ![s].userProfile = updatedUser,
                                               ![s].pc = "session"]
    /\ UNCHANGED <<now, ticks, signed, auth_sessions, nextId, calls, last>>

\* lines 120-127 with the column defaults of the table
NewProfile(id, normalizedAddress, body, at) ==
    [id |-> id, wallet_address |-> normalizedAddress,
     farcaster_fid |-> body.farcasterFid, username |-> body.username,
     total_games |-> 0, total_wins |-> 0, total_tokens_won |-> 0,
     updated_at |-> at]

\* lines 117-140: no identity: insert one; an insert error ends the call
AuthInsert(s) ==
    /\ UNCHANGED consumed
    /\ last = NoCall
    /\ UNCHANGED <<chainVars, drVars, clientVars>>
    /\ handler[s].pc = "insert"
    /\ \E insertError \in BOOLEAN :
        LET h == handler[s]
            newUser == NewProfile(nextId, h.normalizedAddress, h.body, now)
        IN  IF insertError \/ ~ProfileInsertAllowed(newUser)
            THEN /\ last' = [Failure(h.body, h.now, 500,
                                     "Failed to create user profile", h.before)
                                EXCEPT !.fault = insertError]
                 /\ handler' = [handler EXCEPT ![s] = Idle]
                 /\ UNCHANGED <<user_profiles, nextId>>
            ELSE /\ user_profiles' = user_profiles \cup {newUser}
                 /\ nextId' = nextId + 1
                 /\ handler' = [handler EXCEPT ![s].userProfile = newUser,
                                               ![s].pc = "session"]
                 /\ UNCHANGED last
    /\ UNCHANGED <<now, ticks, signed, auth_sessions, calls>>

\* lines 151-158: the row inserted into auth_sessions
SessionRow(userProfile, sessionToken, normalizedAddress, expiresAt) ==
    [user_id |-> userProfile.id, session_token |-> sessionToken,
     wallet_address |-> normalizedAddress, expires_at |-> expiresAt]

\* a handler that answers 500 when the auth_sessions insert fails
SessionInsertChecked(sessionError) == sessionError

\* what the handler does with the result of the auth_sessions insert: the
\* result is not looked at, the call goes on to the success response
SessionInsertFailed(sessionError) == FALSE

\* the challenge values a request submits
Submitted(body) ==
    [message |-> body.message, signedMessage |-> body.signedMessage,
     timestamp |-> body.timestamp]

\* lines 142-172: build the token, insert the session, answer 200
IssueSession(s) ==
    /\ last = NoCall
    /\ UNCHANGED <<chainVars, drVars, clientVars>>
    /\ handler[s].pc = "session"
    /\ \E sessionError \in BOOLEAN :
        LET h == handler[s]
            expiresAt == h.now + sevenDays
            sessionToken == SessionToken(h.userProfile.id, h.normalizedAddress,
                                         h.now, expiresAt)
            row == SessionRow(h.userProfile, sessionToken, h.normalizedAddress,
                              expiresAt)
            stored == ~sessionError /\ SessionInsertAllowed(row)
        IN  /\ auth_sessions' = IF stored THEN auth_sessions \cup {row}
                                ELSE auth_sessions
            /\ IF SessionInsertFailed(~stored)
               THEN last' = Failure(h.body, h.now, 500, "Authentication failed",
                                    h.before)
               ELSE last' = [status |-> 200, success |-> TRUE, error |-> None,
                             req |-> h.body, now |-> h.now,
                             sessionToken |-> sessionToken,
                             userProfile |-> h.userProfile,
                             before |-> h.before]
            /\ handler' = [handler EXCEPT ![s] = Idle]
    /\ UNCHANGED <<now, ticks, signed, user_profiles, nextId, calls>>

\* the last step of the handler
AuthSession(s) == IssueSession(s) /\ UNCHANGED consumed

\* the last step of the handler, with the history of what succeeded kept
AuthSessionLogged(s) ==
    /\ IssueSession(s)
    /\ consumed' = IF last'.success THEN consumed \cup {Submitted(handler[s].body)}
                    ELSE consumed

\* the response leaves the server; until then nothing else is scheduled, which
\* removes no run of the tables and handlers: every step can follow this one
AuthRespond ==
    /\ UNCHANGED consumed
    /\ last # NoCall
    /\ UNCHANGED <<chainVars, drVars, clientVars>>
    /\ last' = NoCall
    /\ UNCHANGED <<now, ticks, signed, user_profiles, auth_sessions, nextId, calls,
                   handler>>

(***************************************************************************)
(* The environment of the service: the clock and the wallets               *)
(***************************************************************************)
Tick(d) ==
    /\ UNCHANGED consumed
    /\ last = NoCall
    /\ UNCHANGED <<chainVars, drVars, clientVars>>
    /\ ticks < MaxTicks
    /\ now' = now + d
    /\ ticks' = ticks + 1
    /\ UNCHANGED <<signed, user_profiles, auth_sessions, nextId, calls, handler, last>>

\* authenticateWithWallet lines 71-74: the client builds the challenge from the
\* wallet address and Date.now(), and the wallet signs it
SignChallenge(w) ==
    /\ UNCHANGED consumed
    /\ last = NoCall
    /\ UNCHANGED <<chainVars, drVars, clientVars>>
    /\ Cardinality(signed) < MaxSigned
    /\ signed' = signed \cup {signMessage(w, Challenge(AddressText(w), now))}
    /\ UNCHANGED <<now, ticks, user_profiles, auth_sessions, nextId, calls, handler, last>>

(***************************************************************************)
(* The chain: the $CC token and the RewardDistributor contract             *)
(***************************************************************************)
\* the accounts that send transactions and sign: the deployer, whose key the
\* backend holds as ADMIN_PRIVATE_KEY, and a player; "w2" only receives
Accounts == {"admin", "w1"}

\* address(0)
ZeroAddress == "zero"

\* address(this) of the RewardDistributor
Pool == "pool"

\* the token the contract is deployed with, and one it can be switched to
Tokens == {"CC", "CC2"}

\* ROULETTE_REWARDS: the on-chain token amounts of the first two segments
RewardAmounts == {1000, 5000}

\* base units of $CC the pool is funded with
PoolStart == 6000

\* the nonces a voucher may carry
MaxNonce == 2

\* vouchers signed off-chain
MaxVouchers == 1

\* transactions mined
MaxTxs == 2

\* keccak256(abi.encodePacked(recipient, amount, nonce)): the three fields have
\* fixed widths, so the packing is injective
MessageHash(recipient, amount, nonce) == <<recipient, amount, nonce>>

\* ECDSA.toEthSignedMessageHash
toEthSignedMessageHash(hash) == <<"Ethereum Signed Message: 32", hash>>

\* a key holder signs a voucher hash the way wallet.signMessage(getBytes(hash)) does
SignHash(k, hash) ==
    [kind |-> "signature", signer |-> k, over |-> toEthSignedMessageHash(hash)]

\* bytes that are no signature
MalformedVoucher == [kind |-> "malformed", signer |-> None, over |-> <<>>]

\* ECDSA.recover: the signer when the signature is over this hash, an address of
\* nobody when it is over another, a revert on malformed bytes
recover(ethSignedMessageHash, signature) ==
    IF signature.kind # "signature" THEN "revert"
    ELSE IF signature.over = ethSignedMessageHash THEN signature.signer
    ELSE "nobody"

NoTx == [op |-> "none"]

Holdings == Accounts \cup {"w2", Pool}

\* IERC20.balanceOf of the token in use
balanceOf(holder) == balances[ccToken][holder]

\* ERC20.transfer by the contract: from the pool to `to`
Transfer(bal, to, amount) ==
    [bal EXCEPT ![ccToken] = [@ EXCEPT ![Pool] = @ - amount, ![to] = @ + amount]]

\* nothing is waiting to be seen: no receipt, no response of the endpoint
Quiet == tx = NoTx /\ drLast = NoCall

\* the state a transaction started from
Before ==
    [owner |-> owner, paused |-> paused, ccToken |-> ccToken, balances |-> balances,
     usedNonces |-> usedNonces, redeemed |-> redeemed]

\* a transaction that reverted: nothing changes
Reverted(op, sender, args, reason) ==
    /\ tx' = [op |-> op, sender |-> sender, args |-> args, status |-> "reverted",
              reason |-> reason, signer |-> None, emitted |-> <<>>,
              before |-> Before]
    /\ UNCHANGED <<owner, paused, ccToken, balances, usedNonces, redeemed, txs>>

\* a transaction that was mined, with the event it emitted
Mined(op, sender, args, signer, event) ==
    /\ tx' = [op |-> op, sender |-> sender, args |-> args, status |-> "ok",
              reason |-> None, signer |-> signer, emitted |-> event,
              before |-> Before]
    /\ txs' = txs + 1

\* a contract that accepts a voucher of any signer
AnySigner(signer) == TRUE

\* a contract that keeps its deployer as the only authority
OnlyDeployer(signer) == signer = "admin"

\* signer == owner()
IsAuthority(signer) == signer = owner

\* a claim without the whenNotPaused modifier
ClaimCheckNotPausable(recipient, amount, nonce, signature) ==
    LET messageHash == MessageHash(recipient, amount, nonce)
        signer == recover(toEthSignedMessageHash(messageHash), signature)
    IN  IF recipient = ZeroAddress THEN "Invalid recipient address"
        ELSE IF ~(amount > 0) THEN "Amount must be greater than 0"
        ELSE IF ~(balanceOf(Pool) >= amount) THEN "Insufficient contract balance"
        ELSE IF messageHash \in usedNonces THEN "Nonce already used"
        ELSE IF signer = "revert" THEN "ECDSA: invalid signature"
        ELSE IF ~IsAuthority(signer) THEN "Invalid signature"
        ELSE "ok"

\* why claimRewardWithSignature reverts, or "ok": the modifiers and requires in
\* the order of the code
ClaimCheck(recipient, amount, nonce, signature) ==
    LET messageHash == MessageHash(recipient, amount, nonce)
        signer == recover(toEthSignedMessageHash(messageHash), signature)
    IN  IF paused THEN "Pausable: paused"
        ELSE IF recipient = ZeroAddress THEN "Invalid recipient address"
        ELSE IF ~(amount > 0) THEN "Amount must be greater than 0"
        ELSE IF ~(balanceOf(Pool) >= amount) THEN "Insufficient contract balance"
        ELSE IF messageHash \in usedNonces THEN "Nonce already used"
        ELSE IF signer = "revert" THEN "ECDSA: invalid signature"
        ELSE IF ~IsAuthority(signer) THEN "Invalid signature"
        ELSE "ok"

\* a claim that forgets to mark the hash
MarkNothing(used, messageHash) == used

\* usedNonces[messageHash] = true
MarkUsed(used, messageHash) == used \cup {messageHash}

\* the effect of claimRewardWithSignature on the chain, for whoever sends it
ClaimEffect(recipient, amount, nonce, signature) ==
    LET messageHash == MessageHash(recipient, amount, nonce)
        check == ClaimCheck(recipient, amount, nonce, signature)
        args == [recipient |-> recipient, amount |-> amount, nonce |-> nonce,
                 signature |-> signature]
    IN  IF check # "ok"
        THEN Reverted("claim", None, args, check)
        ELSE /\ usedNonces' = MarkUsed(usedNonces, messageHash)
             /\ balances' = Transfer(balances, recipient, amount)
             /\ redeemed' = redeemed \cup {messageHash}
             /\ Mined("claim", None, args,
                      recover(toEthSignedMessageHash(messageHash), signature),
                      <<"RewardClaimed", recipient, amount, nonce>>)
             /\ UNCHANGED <<owner, paused, ccToken>>

\* claimRewardWithSignature, called by anyone: the code never reads msg.sender
claimRewardWithSignature(recipient, amount, nonce, signature) ==
    /\ Quiet
    /\ txs < MaxTxs
    /\ ClaimEffect(recipient, amount, nonce, signature)
    /\ UNCHANGED <<vouchers, authVars, drVars, clientVars>>

\* why distributeReward reverts, or "ok"
DistributeCheck(sender, recipient, playerName, amount) ==
    IF sender # owner THEN "Ownable: caller is not the owner"
    ELSE IF paused THEN "Pausable: paused"
    ELSE IF recipient = ZeroAddress THEN "Invalid recipient address"
    ELSE IF playerName = NoText THEN "Player name is required"
    ELSE IF ~(amount > 0) THEN "Amount must be greater than 0"
    ELSE IF ~(balanceOf(Pool) >= amount) THEN "Insufficient contract balance"
    ELSE "ok"

\* the effect of distributeReward on the chain, for whoever sends it
DistributeEffect(op, sender, recipient, playerName, amount) ==
    LET check == DistributeCheck(sender, recipient, playerName, amount)
        args == [recipient |-> recipient, amount |-> amount, nonce |-> 0]
    IN  IF check # "ok"
        THEN Reverted(op, sender, args, check)
        ELSE /\ balances' = Transfer(balances, recipient, amount)
             /\ Mined(op, sender, args, None,
                      <<"RewardDistributed", recipient, playerName, amount>>)
             /\ UNCHANGED <<owner, paused, ccToken, usedNonces, redeemed>>

\* distributeReward sent from an account directly
distributeReward(sender, recipient, playerName, amount) ==
    /\ Quiet
    /\ txs < MaxTxs
    /\ DistributeEffect("distribute", sender, recipient, playerName, amount)
    /\ UNCHANGED <<vouchers, authVars, drVars, clientVars>>

RECURSIVE SumAmounts(_)
\* the first loop of batchDistributeReward
SumAmounts(amounts) ==
    IF amounts = <<>> THEN 0 ELSE Head(amounts) + SumAmounts(Tail(amounts))

RECURSIVE TransferAll(_, _, _)
\* the second loop of batchDistributeReward, once nothing in it reverts
TransferAll(bal, recipients, amounts) ==
    IF recipients = <<>> THEN bal
    ELSE TransferAll(Transfer(bal, Head(recipients), Head(amounts)),
                     Tail(recipients), Tail(amounts))

\* the first index at which the second loop reverts, or 0
FirstBad(recipients, amounts) ==
    LET bad == {i \in 1..Len(recipients) :
                   recipients[i] = ZeroAddress \/ ~(amounts[i] > 0)}
    IN  IF bad = {} THEN 0 ELSE CHOOSE i \in bad : \A j \in bad : i <= j

BatchCheck(sender, recipients, amounts) ==
    IF sender # owner THEN "Ownable: caller is not the owner"
    ELSE IF paused THEN "Pausable: paused"
    ELSE IF Len(recipients) # Len(amounts) THEN "Arrays length mismatch"
    ELSE IF ~(Len(recipients) > 0) THEN "Empty arrays"
    ELSE IF ~(Len(recipients) <= 100) THEN "Too many recipients"
    ELSE IF ~(balanceOf(Pool) >= SumAmounts(amounts)) THEN "Insufficient contract balance"
    ELSE IF FirstBad(recipients, amounts) = 0 THEN "ok"
    ELSE IF recipients[FirstBad(recipients, amounts)] = ZeroAddress
         THEN "Invalid recipient address"
    ELSE "Amount must be greater than 0"

batchDistributeReward(sender, recipients, amounts) ==
    LET check == BatchCheck(sender, recipients, amounts)
        args == [recipient |-> recipients, amount |-> amounts, nonce |-> 0]
    IN  /\ Quiet
        /\ txs < MaxTxs
        /\ IF check # "ok"
           THEN Reverted("batch", sender, args, check)
           ELSE /\ balances' = TransferAll(balances, recipients, amounts)
                /\ Mined("batch", sender, args, None,
                         <<"BatchRewardDistributed", Len(recipients),
                           SumAmounts(amounts)>>)
                /\ UNCHANGED <<owner, paused, ccToken, usedNonces, redeemed>>
        /\ UNCHANGED <<vouchers, authVars, drVars, clientVars>>

WithdrawCheck(sender, amount) ==
    IF sender # owner THEN "Ownable: caller is not the owner"
    ELSE IF ~(amount > 0) THEN "Amount must be greater than 0"
    ELSE IF ~(balanceOf(Pool) >= amount) THEN "Insufficient contract balance"
    ELSE "ok"

withdrawTokens(sender, amount) ==
    LET check == WithdrawCheck(sender, amount)
        args == [recipient |-> owner, amount |-> amount, nonce |-> 0]
    IN  /\ Quiet
        /\ txs < MaxTxs
        /\ IF check # "ok"
           THEN Reverted("withdraw", sender, args, check)
           ELSE /\ balances' = Transfer(balances, owner, amount)
                /\ Mined("withdraw", sender, args, None,
                         <<"EmergencyWithdrawal", owner, amount>>)
                /\ UNCHANGED <<owner, paused, ccToken, usedNonces, redeemed>>
        /\ UNCHANGED <<vouchers, authVars, drVars, clientVars>>

UpdateTokenCheck(sender, newToken) ==
    IF sender # owner THEN "Ownable: caller is not the owner"
    ELSE IF newToken = ZeroAddress THEN "Invalid token address"
    ELSE IF newToken = ccToken THEN "Same token address"
    ELSE "ok"

updateTokenAddress(sender, newToken) ==
    LET check == UpdateTokenCheck(sender, newToken)
        args == [recipient |-> newToken, amount |-> 0, nonce |-> 0]
    IN  /\ Quiet
        /\ txs < MaxTxs
        /\ IF check # "ok"
           THEN Reverted("updateToken", sender, args, check)
           ELSE /\ ccToken' = newToken
                /\ Mined("updateToken", sender, args, None,
                         <<"TokenAddressUpdated", ccToken, newToken>>)
                /\ UNCHANGED <<owner, paused, balances, usedNonces, redeemed>>
        /\ UNCHANGED <<vouchers, authVars, drVars, clientVars>>

\* pause and unpause: onlyOwner, whenNotPaused / whenPaused
PauseCheck(sender, to) ==
    IF sender # owner THEN "Ownable: caller is not the owner"
    ELSE IF paused = to THEN IF to THEN "Pausable: paused" ELSE "Pausable: not paused"
    ELSE "ok"

SetPaused(op, sender, to) ==
    LET check == PauseCheck(sender, to)
        args == [recipient |-> None, amount |-> 0, nonce |-> 0]
    IN  /\ Quiet
        /\ txs < MaxTxs
        /\ IF check # "ok"
           THEN Reverted(op, sender, args, check)
           ELSE /\ paused' = to
                /\ Mined(op, sender, args, None,
                         <<IF to THEN "Paused" ELSE "Unpaused", sender>>)
                /\ UNCHANGED <<owner, ccToken, balances, usedNonces, redeemed>>
        /\ UNCHANGED <<vouchers, authVars, drVars, clientVars>>

pause(sender) == SetPaused("pause", sender, TRUE)

unpause(sender) == SetPaused("unpause", sender, FALSE)

\* Ownable.transferOwnership and Ownable.renounceOwnership
OwnershipCheck(sender, newOwner, renounce) ==
    IF sender # owner THEN "Ownable: caller is not the owner"
    ELSE IF ~renounce /\ newOwner = ZeroAddress
         THEN "Ownable: new owner is the zero address"
    ELSE "ok"

SetOwner(op, sender, newOwner, renounce) ==
    LET check == OwnershipCheck(sender, newOwner, renounce)
        args == [recipient |-> newOwner, amount |-> 0, nonce |-> 0]
    IN  /\ Quiet
        /\ txs < MaxTxs
        /\ IF check # "ok"
           THEN Reverted(op, sender, args, check)
           ELSE /\ owner' = newOwner
                /\ Mined(op, sender, args, None,
                         <<"OwnershipTransferred", owner, newOwner>>)
                /\ UNCHANGED <<paused, ccToken, balances, usedNonces, redeemed>>
        /\ UNCHANGED <<vouchers, authVars, drVars, clientVars>>

transferOwnership(sender, newOwner) ==
    SetOwner("transferOwnership", sender, newOwner, FALSE)

renounceOwnership(sender) ==
    SetOwner("renounceOwnership", sender, ZeroAddress, TRUE)

\* the transaction's receipt has been seen; until then nothing else is
\* scheduled, which removes no run of the chain: every step can follow this one
TxSeen ==
    /\ tx # NoTx
    /\ tx' = NoTx
    /\ UNCHANGED <<owner, paused, ccToken, balances, usedNonces, vouchers, redeemed,
                   txs, authVars, drVars, clientVars>>

\* a key holder signs a voucher off-chain
SignVoucher(k, recipient, amount, nonce) ==
    /\ Quiet
    /\ Cardinality(vouchers) < MaxVouchers
    /\ vouchers' = vouchers \cup {SignHash(k, MessageHash(recipient, amount, nonce))}
    /\ UNCHANGED <<owner, paused, ccToken, balances, usedNonces, redeemed, txs, tx,
                   authVars, drVars, clientVars>>

(***************************************************************************)
(* distribute-reward: the request handler                                  *)
(***************************************************************************)
\* Deno.env.get("ADMIN_PRIVATE_KEY"): the key of the deployer
ADMIN_PRIVATE_KEY == "admin"

\* CONTRACT_ADDRESSES.REWARD_DISTRIBUTOR, an address with no such contract, and
\* an absent contractAddress
ContractAddresses == {"pool", "elsewhere", ""}

\* an address text whose mixed case is not its checksum
BadChecksum == <<"0", "x", "a", "B">>

\* ethers.isAddress: lowercase and correctly checksummed texts are addresses
isAddress(text) == \E h \in Holders : text \in AddressForms(h)

\* the account an address text names
AccountOf(text) == CHOOSE h \in Holders : text \in AddressForms(h)

\* walletAddress.slice(0, 8)
Slice8(text) == SubSeq(text, 1, IF Len(text) < 8 THEN Len(text) ELSE 8)

\* the catch block: the status and error for an error message
DrCatch(message) ==
    IF message = "insufficient funds"
    THEN [status |-> 400, error |-> "Insufficient funds for gas fees"]
    ELSE IF message = "execution reverted"
    THEN [status |-> 400, error |-> "Transaction reverted - check contract conditions"]
    ELSE IF message = "nonce"
    THEN [status |-> 429, error |-> "Transaction nonce error - please retry"]
    ELSE [status |-> 500, error |-> "Failed to distribute reward"]

DrFailure(body, status, error) ==
    [status |-> status, success |-> FALSE, error |-> error, req |-> body,
     rewardAmount |-> 0]

\* lines 24-102: required fields, amount, address format, key, pool balance
DrReceive(body) ==
    /\ Quiet
    /\ dr.pc = "idle"
    /\ IF body.walletAddress = NoText \/ body.rewardAmount = 0
          \/ body.contractAddress = ""
       THEN /\ drLast' = DrFailure(body, 400,
                   "Missing required fields: walletAddress, rewardAmount, contractAddress")
            /\ UNCHANGED dr
       ELSE IF body.rewardAmount <= 0
       THEN /\ drLast' = DrFailure(body, 400, "Reward amount must be greater than 0")
            /\ UNCHANGED dr
       ELSE IF ~isAddress(body.walletAddress)
       THEN /\ drLast' = DrFailure(body, 400, "Invalid wallet address format")
            /\ UNCHANGED dr
       ELSE IF ADMIN_PRIVATE_KEY = None
       THEN /\ drLast' = DrFailure(body, 500,
                   "Server configuration error: missing admin private key")
            /\ UNCHANGED dr
       ELSE IF body.contractAddress # "pool"
       THEN /\ drLast' = DrFailure(body, DrCatch("could not decode result data").status,
                                   DrCatch("could not decode result data").error)
            /\ UNCHANGED dr
       ELSE IF balanceOf(Pool) < body.rewardAmount
       THEN /\ drLast' = DrFailure(body, 400, "Insufficient contract balance")
            /\ UNCHANGED dr
       ELSE /\ dr' = [pc |-> "send", body |-> body]
            /\ UNCHANGED drLast
    /\ UNCHANGED <<chainVars, authVars, clientVars>>

\* the amount the handler passes to contract.distributeReward
DrAmount(rewardAmount) == rewardAmount

\* lines 104-129 and the catch block: send distributeReward from the admin
\* wallet, wait for the receipt, answer; the answer has a transaction hash,
\* the wallet, the player name and the amount, and neither nonce nor signature
DrSend ==
    /\ Quiet
    /\ dr.pc = "send"
    /\ txs < MaxTxs
    /\ \E sendError \in {"none", "insufficient funds"} :
        LET body == dr.body
            finalPlayerName == IF body.playerName # NoText THEN body.playerName
                               ELSE Slice8(body.walletAddress)
            recipient == AccountOf(body.walletAddress)
            amount == DrAmount(body.rewardAmount)
        IN  IF sendError # "none"
            THEN /\ drLast' = DrFailure(body, DrCatch(sendError).status,
                                        DrCatch(sendError).error)
                 /\ UNCHANGED chainVars
            ELSE /\ DistributeEffect("distribute", ADMIN_PRIVATE_KEY, recipient,
                                     finalPlayerName, amount)
                 /\ UNCHANGED vouchers
                 /\ IF DistributeCheck(ADMIN_PRIVATE_KEY, recipient, finalPlayerName,
                                       amount) # "ok"
                    THEN drLast' = DrFailure(body, DrCatch("execution reverted").status,
                                             DrCatch("execution reverted").error)
                    ELSE drLast' = [status |-> 200, success |-> TRUE, error |-> None,
                                    req |-> body, rewardAmount |-> body.rewardAmount,
                                    walletAddress |-> body.walletAddress,
                                    playerName |-> finalPlayerName,
                                    nonce |-> None, signature |-> None]
    /\ dr' = Idle
    /\ UNCHANGED <<authVars, clientVars>>

\* the response leaves the server
DrRespond ==
    /\ drLast # NoCall
    /\ drLast' = NoCall
    /\ UNCHANGED <<dr, chainVars, authVars, clientVars>>

(***************************************************************************)
(* The client: useAuth                                                     *)
(***************************************************************************)
\* the browsers in which the app runs
Clients == {"c1", "c2"}

\* stats updates sent
MaxUpdates == 2

\* the hook with nothing stored: no token in localStorage, user null
SignedOut == [token |-> NoToken, user |-> NoRow, isAuthenticated |-> FALSE]

\* JSON.parse(atob(sessionToken))
ParseToken(token) ==
    [userId |-> token[2], walletAddress |-> token[3], timestamp |-> token[4],
     expiresAt |-> token[5]]

\* authenticateWithWallet lines 93-111: a success response reaches the client
\* that sent the request
ClientReceive(c) ==
    /\ last # NoCall
    /\ last.success
    /\ last.sessionToken # NoToken
    /\ last.userProfile # NoRow
    /\ client' = [client EXCEPT ![c] = [token |-> last.sessionToken,
                                         user |-> last.userProfile,
                                         isAuthenticated |-> TRUE]]
    /\ authState' = [authState EXCEPT ![c] = [loading |-> FALSE, authError |-> None]]
    /\ last' = NoCall
    /\ UNCHANGED <<now, ticks, signed, user_profiles, auth_sessions, nextId, calls,
                   handler, consumed, updates, claimVars, scoreVars, app, chainVars, drVars>>

\* the page is closed: the React state is gone, localStorage stays
PageClose(c) ==
    /\ last = NoCall
    /\ client[c].user # NoRow
    /\ client' = [client EXCEPT ![c].user = NoRow, ![c].isAuthenticated = FALSE]
    /\ app' = [app EXCEPT ![c] = [user |-> NoRow, checked |-> FALSE]]
    /\ authState' = [authState EXCEPT ![c] = [loading |-> TRUE, authError |-> None]]
    /\ UNCHANGED <<authVars, updates, claimVars, scoreVars, chainVars, drVars>>

\* checkSession, run when the hook mounts
checkSession(c) ==
    /\ last = NoCall
    /\ client[c].user = NoRow
    /\ ~client[c].isAuthenticated
    /\ client[c].token # NoToken
    /\ \E error \in BOOLEAN :
        LET sessionToken == client[c].token
            sessionData == ParseToken(sessionToken)
            profile == ProfileById(sessionData.userId)
        IN  IF sessionData.expiresAt > now
            THEN IF ~error /\ profile # NoRow
                 THEN client' = [client EXCEPT ![c].user = profile,
                                               ![c].isAuthenticated = TRUE]
                 ELSE client' = [client EXCEPT ![c].token = NoToken]
            ELSE client' = [client EXCEPT ![c].token = NoToken]
    /\ authState' = [authState EXCEPT ![c].loading = FALSE]
    /\ UNCHANGED <<authVars, updates, claimVars, scoreVars, app, chainVars, drVars>>

\* policy "Users can update own profile via session": USING and WITH CHECK
UpdateOwnProfilePolicy(row) ==
    \E r \in auth_sessions :
        /\ r.user_id = row.id
        /\ r.wallet_address = row.wallet_address
        /\ r.expires_at > now

\* the increments App passes: a game lost, a game won, a reward claimed
StatInputs == {<<1, 0, 0>>, <<1, 1, 0>>, <<0, 0, 1000>>}

\* the row updateUserStats writes: absolute values computed from the user held
\* in React state
StatsRow(user, row, gamesPlayed, wins, tokensWon) ==
    [row EXCEPT !.total_games = user.total_games + gamesPlayed,
                !.total_wins = user.total_wins + wins,
                !.total_tokens_won = user.total_tokens_won + tokensWon,
                !.updated_at = now]

\* the update of user_profiles through the policy
StatsTable(user, gamesPlayed, wins, tokensWon) ==
    LET row == ProfileById(user.id)
        written == StatsRow(user, row, gamesPlayed, wins, tokensWon)
    IN  IF row # NoRow /\ UpdateOwnProfilePolicy(row) /\ UpdateOwnProfilePolicy(written)
        THEN (user_profiles \ {row}) \cup {written}
        ELSE user_profiles

\* setUser(prev => ...) after the update
StatsUser(user, gamesPlayed, wins, tokensWon) ==
    [user EXCEPT !.total_games = @ + gamesPlayed,
                 !.total_wins = @ + wins,
                 !.total_tokens_won = @ + tokensWon,
                 !.updated_at = now]

\* updateUserStats of the useAuth instance client[c]
updateUserStats(c, gamesPlayed, wins, tokensWon) ==
    /\ last = NoCall
    /\ client[c].user # NoRow
    /\ updates < MaxUpdates
    /\ updates' = updates + 1
    /\ \E error \in BOOLEAN :
        LET user == client[c].user
        IN  IF error
            THEN UNCHANGED <<user_profiles, client>>
            ELSE /\ user_profiles' = StatsTable(user, gamesPlayed, wins, tokensWon)
                 /\ client' = [client EXCEPT ![c].user =
                                  StatsUser(user, gamesPlayed, wins, tokensWon)]
    /\ UNCHANGED <<now, ticks, signed, auth_sessions, nextId, calls, handler, last,
                   consumed, claimVars, scoreVars, app, authState, chainVars, drVars>>

\* signOut
signOut(c) ==
    /\ last = NoCall
    /\ client[c] # SignedOut
    /\ client' = [client EXCEPT ![c] = SignedOut]
    /\ UNCHANGED <<authVars, updates, claimVars, scoreVars, app, authState, chainVars, drVars>>

\* cleanup_expired_sessions()
cleanup_expired_sessions ==
    /\ last = NoCall
    /\ auth_sessions' = {r \in auth_sessions : ~(r.expires_at < now)}
    /\ UNCHANGED <<now, ticks, signed, user_profiles, nextId, calls, handler, last,
                   consumed, clientVars, chainVars, drVars>>

(***************************************************************************)
(* Requests                                                                *)
(***************************************************************************)
\* timestamps a request may carry, relative to the server clock: both sides of
\* the five-minute boundary, in the past and in the future
Offsets == {0 - (fiveMinutes + 1), 0 - fiveMinutes, 0 - (fiveMinutes - 1),
            fiveMinutes - 1, fiveMinutes, fiveMinutes + 1}

\* every request an HTTP client can put together from what has been signed
GateBodies ==
    [walletAddress : AllAddressForms \cup {NoText},
     signedMessage : signed \cup {Malformed, NoSignature},
     message : {sig.msg : sig \in signed} \cup {Challenge(AddressText("w1"), now)}
               \cup {NoMessage},
     timestamp : {now + d : d \in Offsets} \cup {sig.msg.ts : sig \in signed}
                 \cup {NoTimestamp},
     farcasterFid : {None},
     username : {None}]

\* the social fields a sign-in may carry: none, or those of one of two
\* Farcaster accounts
Socials == {<<None, None>>, <<"fidA", "userA">>, <<"fidB", "userB">>}

\* the requests of clients that sign in (authenticateWithWallet lines 71-90):
\* a signed challenge with its own timestamp, with or without social fields,
\* under either spelling of the address
FlowBodies ==
    {[walletAddress |-> a, signedMessage |-> sig, message |-> sig.msg,
      timestamp |-> sig.msg.ts, farcasterFid |-> social[1], username |-> social[2]] :
        a \in AddressForms("w1"), sig \in signed,
        social \in {<<None, None>>, <<"fidA", "userA">>}}

\* PlayerStats of a player who has not played
NoStats == [totalGames |-> 0, highestScore |-> 0, totalScore |-> 0,
            lastGameTimestamp |-> 0]

\* no RewardClaimedModal is mounted: App.claimedReward is null
NoModal == [reward |-> 0, walletAddress |-> "w1", isClaiming |-> FALSE,
            claimed |-> FALSE]

\* no claim attempt is running and none has run
NoRun == [by |-> None, pc |-> "idle", amount |-> 0, start |-> 0,
          data |-> [success |-> FALSE, nonce |-> 0, signature |-> NoSignature,
                    error |-> None],
          response |-> [success |-> FALSE, error |-> None], cause |-> None]

\* sign-ins of one wallet from clients connected to no or to either of the two
\* Farcaster accounts
SocialBodies ==
    {[walletAddress |-> AddressText("w1"), signedMessage |-> sig, message |-> sig.msg,
      timestamp |-> sig.msg.ts, farcasterFid |-> social[1], username |-> social[2]] :
        sig \in signed, social \in Socials}

Init ==
    /\ now = Epoch
    /\ ticks = 0
    /\ signed = {}
    /\ user_profiles = {}
    /\ auth_sessions = {}
    /\ nextId = 1
    /\ calls = 0
    /\ handler = [s \in Slots |-> Idle]
    /\ last = NoCall
    /\ consumed = {}
    /\ owner = "admin"
    /\ paused = FALSE
    /\ ccToken = "CC"
    /\ balances = [k \in Tokens |-> [h \in Holdings |->
                        IF k = "CC" /\ h = Pool THEN PoolStart ELSE 0]]
    /\ usedNonces = {}
    /\ vouchers = {}
    /\ redeemed = {}
    /\ txs = 0
    /\ tx = NoTx
    /\ dr = Idle
    /\ drLast = NoCall
    /\ client = [c \in Clients |-> SignedOut]
    /\ updates = 0
    /\ roulette = "ready"
    /\ modal = NoModal
    /\ run = NoRun
    /\ app = [c \in Clients |-> [user |-> NoRow, checked |-> TRUE]]
    /\ authState = [c \in Clients |-> [loading |-> FALSE, authError |-> None]]
    /\ playerScores = [p \in Holders |-> <<>>]
    /\ playerStats = [p \in Holders |-> NoStats]
    /\ totalGamesPlayed = [p \in Holders |-> 0]
    /\ highestScore = [p \in Holders |-> 0]
    /\ totalScoresRecorded = 0
    /\ uniquePlayers = 0
    /\ blockTimestamp = Epoch \div 1000
    /\ scoreLog = [p \in Holders |-> <<>>]

NextGate ==
    \/ \E d \in TickSteps : Tick(d)
    \/ \E w \in Wallets : SignChallenge(w)
    \/ \E body \in GateBodies : AuthValidate(1, body)
    \/ AuthLookup(1)
    \/ AuthUpdate(1)
    \/ AuthInsert(1)
    \/ AuthSession(1)
    \/ AuthRespond

SpecGate == Init /\ [][NextGate]_vars

\* requests handled concurrently: the handlers interleave at their awaits
NextAuth ==
    \/ \E d \in TickSteps : Tick(d)
    \/ \E w \in Wallets : SignChallenge(w)
    \/ \E s \in Slots : \E body \in FlowBodies : AuthValidate(s, body)
    \/ \E s \in Slots : AuthLookup(s)
    \/ \E s \in Slots : AuthUpdate(s)
    \/ \E s \in Slots : AuthInsert(s)
    \/ \E s \in Slots : AuthSession(s)
    \/ AuthRespond

SpecAuth == Init /\ [][NextAuth]_vars

\* sign-ins handled one at a time, honest and resubmitted, with the history of
\* the challenge values that succeeded
NextReplay ==
    \/ \E d \in TickSteps : Tick(d)
    \/ \E w \in Wallets : SignChallenge(w)
    \/ \E body \in FlowBodies : AuthValidate(1, body)
    \/ AuthLookup(1)
    \/ AuthUpdate(1)
    \/ AuthInsert(1)
    \/ AuthSessionLogged(1)
    \/ AuthRespond

SpecReplay == Init /\ [][NextReplay]_vars

\* how far the clock moves between the steps of a session's life
SessionTickSteps == {fiveMinutes, sevenDays}

\* the request of a client that signs in, nothing else attached
ClientBodies ==
    {[walletAddress |-> AddressText("w1"), signedMessage |-> sig, message |-> sig.msg,
      timestamp |-> sig.msg.ts, farcasterFid |-> None, username |-> None] :
        sig \in signed}

\* two browsers of one player: sign-in, page loads, stats updates, sign-out
NextClient ==
    \/ \E d \in SessionTickSteps : Tick(d)
    \/ \E w \in Wallets : SignChallenge(w)
    \/ \E body \in ClientBodies : AuthValidate(1, body)
    \/ AuthLookup(1)
    \/ AuthUpdate(1)
    \/ AuthInsert(1)
    \/ AuthSession(1)
    \/ AuthRespond
    \/ \E c \in Clients : ClientReceive(c)
    \/ \E c \in Clients : PageClose(c)
    \/ \E c \in Clients : checkSession(c)
    \/ \E c \in Clients : \E in \in StatInputs :
         updateUserStats(c, in[1], in[2], in[3])
    \/ \E c \in Clients : signOut(c)
    \/ cleanup_expired_sessions

SpecClient == Init /\ [][NextClient]_vars

\* one browser of a player who signs in, plays, and signs in again
NextStats ==
    \/ Tick(fiveMinutes)
    \/ SignChallenge("w1")
    \/ \E body \in ClientBodies : AuthValidate(1, body)
    \/ AuthLookup(1)
    \/ AuthUpdate(1)
    \/ AuthInsert(1)
    \/ AuthSession(1)
    \/ AuthRespond
    \/ ClientReceive("c1")
    \/ \E in \in StatInputs : updateUserStats("c1", in[1], in[2], in[3])

SpecStats == Init /\ [][NextStats]_vars

\* concurrent sign-ins of one wallet with changing social fields
NextSocial ==
    \/ \E d \in TickSteps : Tick(d)
    \/ \E w \in Wallets : SignChallenge(w)
    \/ \E s \in Slots : \E body \in SocialBodies : AuthValidate(s, body)
    \/ \E s \in Slots : AuthLookup(s)
    \/ \E s \in Slots : AuthUpdate(s)
    \/ \E s \in Slots : AuthInsert(s)
    \/ \E s \in Slots : AuthSession(s)
    \/ AuthRespond

SpecSocial == Init /\ [][NextSocial]_vars

\* the identity row of a player who signed in at Epoch from a client with no
\* Farcaster account, and the session of that sign-in
ReturningPlayer ==
    NewProfile(1, NormalizedAddress(AddressText("w1")),
               [farcasterFid |-> None, username |-> None], Epoch)

ReturningSession ==
    SessionRow(ReturningPlayer,
               SessionToken(1, NormalizedAddress(AddressText("w1")), Epoch,
                            Epoch + sevenDays),
               NormalizedAddress(AddressText("w1")), Epoch + sevenDays)

\* the service with that player in its tables
InitReturning ==
    /\ now = Epoch
    /\ ticks = 0
    /\ signed = {}
    /\ user_profiles = {ReturningPlayer}
    /\ auth_sessions = {ReturningSession}
    /\ nextId = 2
    /\ calls = 0
    /\ handler = [s \in Slots |-> Idle]
    /\ last = NoCall
    /\ consumed = {}
    /\ owner = "admin"
    /\ paused = FALSE
    /\ ccToken = "CC"
    /\ balances = [k \in Tokens |-> [h \in Holdings |->
                        IF k = "CC" /\ h = Pool THEN PoolStart ELSE 0]]
    /\ usedNonces = {}
    /\ vouchers = {}
    /\ redeemed = {}
    /\ txs = 0
    /\ tx = NoTx
    /\ dr = Idle
    /\ drLast = NoCall
    /\ client = [c \in Clients |-> SignedOut]
    /\ updates = 0
    /\ roulette = "ready"
    /\ modal = NoModal
    /\ run = NoRun
    /\ app = [c \in Clients |-> [user |-> NoRow, checked |-> TRUE]]
    /\ authState = [c \in Clients |-> [loading |-> FALSE, authError |-> None]]
    /\ playerScores = [p \in Holders |-> <<>>]
    /\ playerStats = [p \in Holders |-> NoStats]
    /\ totalGamesPlayed = [p \in Holders |-> 0]
    /\ highestScore = [p \in Holders |-> 0]
    /\ totalScoresRecorded = 0
    /\ uniquePlayers = 0
    /\ blockTimestamp = Epoch \div 1000
    /\ scoreLog = [p \in Holders |-> <<>>]

\* concurrent sign-ins of the returning player from clients connected to
\* different Farcaster accounts; the lookup finds the row, so no call reaches
\* the insert
NextReturning ==
    \/ \E d \in TickSteps : Tick(d)
    \/ \E w \in Wallets : SignChallenge(w)
    \/ \E s \in Slots : \E body \in SocialBodies : AuthValidate(s, body)
    \/ \E s \in Slots : AuthLookup(s)
    \/ \E s \in Slots : AuthUpdate(s)
    \/ \E s \in Slots : AuthSession(s)
    \/ AuthRespond

SpecReturning == InitReturning /\ [][NextReturning]_vars

\* the requests an HTTP client can send to distribute-reward
DrBodies ==
    [walletAddress : {AddressText("w1"), BadChecksum, NoText},
     rewardAmount : {1000, 0, 0 - 1000},
     contractAddress : ContractAddresses,
     playerName : {NoText}]

Recipients == {"w1", "w2", ZeroAddress}

Amounts == RewardAmounts \cup {0}

Nonces == 1..MaxNonce

\* the array pairs given to batchDistributeReward
BatchInputs ==
    {<<<<>>, <<>>>>, <<<<"w1">>, <<1000, 5000>>>>, <<<<"w1", "w2">>, <<1000, 5000>>>>,
     <<<<"w1", ZeroAddress>>, <<1000, 5000>>>>, <<<<"w1", "w2">>, <<1000, 0>>>>}

NextChain ==
    \/ \E k \in Accounts : \E a \in RewardAmounts : \E n \in Nonces :
         SignVoucher(k, "w1", a, n)
    \/ \E r \in Recipients : \E a \in Amounts : \E n \in Nonces :
         \E sig \in vouchers \cup {MalformedVoucher} :
            claimRewardWithSignature(r, a, n, sig)
    \/ \E sender \in Accounts : \E r \in {"w1", ZeroAddress} : \E a \in Amounts :
         \E name \in {NoText, <<"A", "n", "n">>} : distributeReward(sender, r, name, a)
    \/ \E sender \in Accounts : \E pair \in BatchInputs :
         batchDistributeReward(sender, pair[1], pair[2])
    \/ \E sender \in Accounts : \E a \in Amounts : withdrawTokens(sender, a)
    \/ \E sender \in Accounts : \E k \in Tokens \cup {ZeroAddress} :
         updateTokenAddress(sender, k)
    \/ \E sender \in Accounts : pause(sender)
    \/ \E sender \in Accounts : unpause(sender)
    \/ \E sender \in Accounts : \E o \in Accounts \cup {ZeroAddress} :
         transferOwnership(sender, o)
    \/ \E sender \in Accounts : renounceOwnership(sender)
    \/ TxSeen
    \/ \E body \in DrBodies : DrReceive(body)
    \/ DrSend
    \/ DrRespond

SpecChain == Init /\ [][NextChain]_vars

(***************************************************************************)
(* Properties of authenticate-wallet                                       *)
(***************************************************************************)
\* the four required fields are present
AllPresent(req) ==
    /\ req.walletAddress # NoText
    /\ req.signedMessage # NoSignature
    /\ req.message # NoMessage
    /\ req.timestamp # NoTimestamp

\* the signature does not parse, or the address recovered from (message,
\* signedMessage) is not the lowercased walletAddress
SignatureBad(req) ==
    LET recoveredAddress == verifyMessage(req.message, req.signedMessage)
    IN  \/ recoveredAddress = <<"throw">>
        \/ toLowerCase(recoveredAddress) # toLowerCase(req.walletAddress)

\* C1: a (message, signature) pair signed at time T authenticates only while
\* the server clock is within five minutes of T, whatever the timestamp field
\* of the request says
C1_SuccessOnlyNearSigningTime ==
    (last # NoCall /\ last.success) =>
        /\ last.now - last.req.message.ts <= 5 * 60 * 1000
        /\ last.req.message.ts - last.now <= 5 * 60 * 1000

\* C5 as stated: a request whose signature is malformed or recovers another
\* address is answered 401 and gets no session
C5_BadSignatureAnswered401 ==
    (last # NoCall /\ SignatureBad(last.req)) =>
        /\ last.status = 401
        /\ last.sessionToken = NoToken
        /\ auth_sessions = last.before.auth_sessions

\* C5: a request whose signature is malformed or recovers another address
\* fails and gets no session: 401 when the four required fields are present,
\* 400 when one of them is missing; no such request gets past verification
C5_BadSignatureRejected ==
    /\ (last # NoCall /\ SignatureBad(last.req)) =>
          /\ ~last.success
          /\ last.status = IF AllPresent(last.req) THEN 401 ELSE 400
          /\ last.sessionToken = NoToken
          /\ auth_sessions = last.before.auth_sessions
    /\ \A s \in Slots : handler[s].pc # "idle" => ~SignatureBad(handler[s].body)

\* a well-formed signature over another message than the one submitted, with
\* every field present and a fresh timestamp, answered "Invalid signature"
C5_Witness ==
    /\ last # NoCall
    /\ last.status = 401
    /\ last.error = "Invalid signature"
    /\ last.req.signedMessage.kind = "signature"
    /\ last.req.signedMessage.msg # last.req.message
    /\ last.req.walletAddress = AddressText(last.req.signedMessage.signer)

\* C6: with all fields present the call is rejected as expired exactly when
\* the timestamp is more than five minutes from the server clock, in the past
\* or in the future
C6_ExpiredExactlyBeyondFiveMinutes ==
    /\ (last # NoCall /\ AllPresent(last.req)) =>
          ((last.status = 401 /\ last.error = "Signature expired. Please try again.")
           <=> \/ last.now - last.req.timestamp > 5 * 60 * 1000
               \/ last.req.timestamp - last.now > 5 * 60 * 1000)
    /\ \A s \in Slots : handler[s].pc # "idle" =>
          /\ handler[s].now - handler[s].body.timestamp <= 5 * 60 * 1000
          /\ handler[s].body.timestamp - handler[s].now <= 5 * 60 * 1000

\* timestamp = now - 5min - 1ms, all fields present, rejected as expired
C6_Witness ==
    /\ last # NoCall
    /\ AllPresent(last.req)
    /\ last.req.timestamp = last.now - 5 * 60 * 1000 - 1
    /\ last.error = "Signature expired. Please try again."

\* C8: every successful response carries a sessionToken with a row in
\* auth_sessions: the same token, the identity's id, the lowercased address,
\* expires_at seven days after the verification time
C8_SuccessHasStoredSession ==
    (last # NoCall /\ last.success) =>
        \E r \in auth_sessions :
            /\ r.session_token = last.sessionToken
            /\ r.user_id = last.userProfile.id
            /\ r.wallet_address = toLowerCase(last.req.walletAddress)
            /\ r.expires_at = last.now + 7 * 24 * 60 * 60 * 1000

\* C9: a call that ends in a failure response leaves user_profiles and
\* auth_sessions as it found them
C9_FailureLeavesTablesUnchanged ==
    (last # NoCall /\ ~last.success) =>
        /\ last.status \in {400, 401, 500}
        /\ user_profiles = last.before.user_profiles
        /\ auth_sessions = last.before.auth_sessions

\* a call that got past verification and the lookup, for an address whose
\* identity is not stored, and failed with 500
C9_Witness ==
    /\ last # NoCall
    /\ last.status = 500
    /\ last.error = "Failed to create user profile"
    /\ user_profiles = {}

\* C10: at most one user_profiles row per lowercased address, and every call
\* resolves to the row of its lowercased walletAddress, whatever its letter case
C10_OneIdentityPerAddress ==
    /\ \A r1, r2 \in user_profiles :
          toLowerCase(r1.wallet_address) = toLowerCase(r2.wallet_address) => r1 = r2
    /\ \A r \in user_profiles : r.wallet_address = toLowerCase(r.wallet_address)
    /\ (last # NoCall /\ last.success) =>
          \A r \in user_profiles :
              r.wallet_address = toLowerCase(last.req.walletAddress)
                  => r.id = last.userProfile.id
    /\ \A s \in Slots : handler[s].pc = "session" =>
          \A r \in user_profiles :
              r.wallet_address = toLowerCase(handler[s].body.walletAddress)
                  => r.id = handler[s].userProfile.id

\* a call under one spelling of the address has succeeded while a call under
\* the other spelling holds the same identity row
C10_Witness ==
    /\ last # NoCall
    /\ last.success
    /\ \E s \in Slots :
          /\ handler[s].pc = "session"
          /\ handler[s].body.walletAddress # last.req.walletAddress
          /\ handler[s].userProfile.id = last.userProfile.id

\* C11: a call that starts when a social field of the identity is stored
\* non-empty never changes that field: the first social fields written stay
C11_StoredSocialKept ==
    [][\A s \in Slots :
          (handler[s].pc # "idle" /\ handler'[s] # handler[s]) =>
              \A r \in handler[s].before.user_profiles :
                  \A q \in user_profiles : \A q2 \in user_profiles' :
                      (q.id = r.id /\ q2.id = r.id) =>
                          /\ r.farcaster_fid # None => q2.farcaster_fid = q.farcaster_fid
                          /\ r.username # None => q2.username = q.username]_vars

\* a sign-in with the social fields of account B has succeeded for an identity
\* stored with those of account A, and the identity still carries A
C11_Witness ==
    /\ last # NoCall
    /\ last.success
    /\ last.req.farcasterFid = "fidB"
    /\ last.req.username = "userB"
    /\ \E r \in last.before.user_profiles :
          r.farcaster_fid = "fidA" /\ r.username = "userA"
    /\ \E q \in user_profiles :
          /\ q.id = last.userProfile.id
          /\ q.farcaster_fid = "fidA"
          /\ q.username = "userA"
          /\ q.updated_at = last.now

\* C12: two successful calls for the same wallet return the same identity id
\* and two different session tokens: a success carries the id, and none of the
\* tokens, of the sessions stored for the wallet by the calls before it
C12_SameIdentityNewToken ==
    (last # NoCall /\ last.success) =>
        \A r \in last.before.auth_sessions :
            r.wallet_address = toLowerCase(last.req.walletAddress) =>
                /\ r.user_id = last.userProfile.id
                /\ r.session_token # last.sessionToken

\* the request is valid: every field present, the timestamp within five
\* minutes of the verification time, the signature the wallet's over the message
ValidRequest(req, at) ==
    /\ AllPresent(req)
    /\ at - req.timestamp <= 5 * 60 * 1000
    /\ req.timestamp - at <= 5 * 60 * 1000
    /\ ~SignatureBad(req)

\* C13: valid requests for the same wallet handled concurrently all return
\* success while the database works, whatever the interleaving, and one
\* identity row exists for the wallet
C13_ConcurrentSignInsSucceed ==
    /\ (last # NoCall /\ ValidRequest(last.req, last.now) /\ ~last.success)
          => last.fault
    /\ \A r1, r2 \in user_profiles :
          r1.wallet_address = r2.wallet_address => r1 = r2

\* C14: a signed challenge is consumed once: no call succeeds with the
\* (message, signature, timestamp) of a call that has succeeded before
C14_ChallengeConsumedOnce ==
    [][\A s \in Slots :
          (handler[s].pc = "session" /\ last' # NoCall /\ last'.success) =>
              Submitted(handler[s].body) \notin consumed]_vars

\* C28: under concurrent sign-ins of an existing identity, a social field that
\* is stored non-empty is never replaced, whatever the order of the calls'
\* lookups and updates
C28_ConcurrentFirstWriteWins ==
    [][\A q \in user_profiles : \A q2 \in user_profiles' :
          q2.id = q.id =>
              /\ q.farcaster_fid # None => q2.farcaster_fid = q.farcaster_fid
              /\ q.username # None => q2.username = q.username]_vars

\* C26: a step of authenticate leaves total_games, total_wins and
\* total_tokens_won of every existing identity as they are, and an identity it
\* creates has the three counters at 0
C26_SignInKeepsCounters ==
    [][(handler' # handler) =>
          \A r2 \in user_profiles' :
              IF \E r \in user_profiles : r.id = r2.id
              THEN \A r \in user_profiles :
                      r.id = r2.id =>
                          /\ r2.total_games = r.total_games
                          /\ r2.total_wins = r.total_wins
                          /\ r2.total_tokens_won = r.total_tokens_won
              ELSE /\ r2.total_games = 0
                   /\ r2.total_wins = 0
                   /\ r2.total_tokens_won = 0]_vars

\* a sign-in of an identity that has played has succeeded and updated the row,
\* and the stored counters are the ones from before the call
C26_Witness ==
    /\ last # NoCall
    /\ last.success
    /\ \E r \in last.before.user_profiles :
          /\ r.total_games > 0
          /\ \E q \in user_profiles :
                /\ q.id = r.id
                /\ q.total_games = r.total_games
                /\ q.total_tokens_won = r.total_tokens_won
                /\ q.updated_at = last.now
                /\ q # r

(***************************************************************************)
(* Properties of the client and of the row policy                          *)
(***************************************************************************)
\* C15: total_games, total_wins and total_tokens_won of an identity never
\* decrease, whichever clients update them and in whatever order
C15_StatsNeverDecrease ==
    [][\A r \in user_profiles : \A r2 \in user_profiles' :
          r2.id = r.id =>
              /\ r2.total_games >= r.total_games
              /\ r2.total_wins >= r.total_wins
              /\ r2.total_tokens_won >= r.total_tokens_won]_vars

\* C16: a stats update changes the row only when the client that sends it
\* holds a session that is stored, unexpired and of that identity
C16_UpdateNeedsOwnSession ==
    [][\A c \in Clients :
          (updates' # updates /\ client'[c] # client[c]
              /\ user_profiles' # user_profiles) =>
                 \E r \in auth_sessions :
                     /\ r.session_token = client[c].token
                     /\ r.user_id = client[c].user.id
                     /\ r.expires_at > now]_vars

\* C17: a page load makes the client authenticated only when the stored
\* token has not reached its expiresAt and auth_sessions holds a record of it
C17_PageLoadChecksStoredSession ==
    [][\A c \in Clients :
          (last = NoCall /\ ~client[c].isAuthenticated
              /\ client'[c].isAuthenticated) =>
                 /\ ParseToken(client[c].token).expiresAt > now
                 /\ \E r \in auth_sessions :
                        r.session_token = client[c].token]_vars

(***************************************************************************)
(* Properties of the RewardDistributor and of distribute-reward            *)
(***************************************************************************)
\* the hash of the triple a transaction names
TxHash == MessageHash(tx.args.recipient, tx.args.amount, tx.args.nonce)

\* C2: once a claim for a triple has succeeded, a later claim with the same
\* triple reverts and transfers nothing, and no operation clears an entry of
\* usedNonces
C2_RedeemedOnce ==
    /\ redeemed \subseteq usedNonces
    /\ tx # NoTx => tx.before.usedNonces \subseteq usedNonces
    /\ (tx # NoTx /\ tx.op = "claim" /\ TxHash \in tx.before.redeemed) =>
          /\ tx.status = "reverted"
          /\ tx.reason \in {"Nonce already used", "Pausable: paused",
                            "Insufficient contract balance"}
          /\ balances = tx.before.balances

\* a claim with a triple that was paid out before, with the voucher of the
\* owner, while the contract runs and the pool holds enough: reverted
C2_Witness ==
    /\ tx # NoTx
    /\ tx.op = "claim"
    /\ TxHash \in tx.before.redeemed
    /\ tx.reason = "Nonce already used"

\* C3: a claim transfers tokens only when the signature over the hash of
\* (recipient, amount, nonce) is the one of the owner at the time of the call
C3_OnlyOwnerVouchersPaid ==
    (tx # NoTx /\ tx.op = "claim"
        /\ (tx.status = "ok" \/ balances # tx.before.balances)) =>
            /\ tx.signer = tx.before.owner
            /\ SignHash(tx.before.owner, TxHash) \in vouchers

\* a claim paid out on the voucher of an owner who is not the deployer
C3_Witness ==
    /\ tx # NoTx
    /\ tx.op = "claim"
    /\ tx.status = "ok"
    /\ tx.before.owner = "w1"
    /\ balances # tx.before.balances

\* sent is n * 10^18, computed without leaving 32 bits
ScaledBy18Decimals(sent, n) ==
    /\ sent % 1000000000 = 0
    /\ (sent \div 1000000000) % 1000000000 = 0
    /\ (sent \div 1000000000) \div 1000000000 = n

\* C4: for a reward of N tokens the amount the service sends on-chain is
\* N * 10^18 base units
C4_ServiceSendsBaseUnits ==
    (drLast # NoCall /\ drLast.success /\ tx # NoTx) =>
        ScaledBy18Decimals(tx.args.amount, drLast.req.rewardAmount)

\* C7: handling a distribute-reward request changes no balance on-chain
C7_EndpointMovesNoTokens ==
    (drLast # NoCall /\ tx # NoTx) =>
        /\ balances = tx.before.balances
        /\ usedNonces = tx.before.usedNonces

\* C18: every voucher the distribute-reward endpoint issues carries a nonce
\* and a signature of its own, and a claim paid out on one voucher marks the
\* hash of that voucher and no other
C18_VouchersIndependent ==
    /\ (drLast # NoCall /\ drLast.success) =>
          /\ drLast.nonce # None
          /\ drLast.signature # None
    /\ (tx # NoTx /\ tx.op = "claim" /\ tx.status = "ok") =>
          usedNonces = tx.before.usedNonces \cup {TxHash}

\* the voucher of a claim is the signature of key k over the hash of the
\* triple the claim names
VoucherOf(k) == tx.args.signature = SignHash(k, TxHash)

\* the pool held at least the amount of the claim when it was called
PoolCovers == tx.before.balances[tx.before.ccToken][Pool] >= tx.args.amount

\* C19 as stated: a voucher signed by the issuing key for a non-zero recipient
\* and a positive amount, not yet redeemed, is paid out by every claim made
\* while the pool holds at least its amount
C19_VoucherRedeemableWhilePoolCovers ==
    (tx # NoTx /\ tx.op = "claim" /\ VoucherOf(ADMIN_PRIVATE_KEY)
        /\ tx.args.recipient # ZeroAddress /\ tx.args.amount > 0
        /\ TxHash \notin tx.before.redeemed /\ PoolCovers) =>
            tx.status = "ok"

\* C19: a voucher not yet redeemed, for a non-zero recipient and a positive
\* amount, is paid out by every claim made while the contract is not paused,
\* the key that signed it is owner() and the pool holds at least its amount
C19_VoucherRedeemableWhileActive ==
    (tx # NoTx /\ tx.op = "claim" /\ VoucherOf(tx.before.owner)
        /\ ~tx.before.paused
        /\ tx.args.recipient # ZeroAddress /\ tx.args.amount > 0
        /\ TxHash \notin tx.before.redeemed /\ PoolCovers) =>
            /\ tx.status = "ok"
            /\ balances[ccToken][tx.args.recipient] =
                  tx.before.balances[ccToken][tx.args.recipient] + tx.args.amount

\* a voucher paid out after the pool has paid another reward and still
\* covers the amount
C19_Witness ==
    /\ tx # NoTx
    /\ tx.op = "claim"
    /\ tx.status = "ok"
    /\ tx.before.balances[tx.before.ccToken][Pool] < PoolStart
    /\ VoucherOf(tx.before.owner)

\* the outcome of a claim, given whether one of the listed conditions held
\* when it was called: reverted with nothing changed, or paid out
ClaimOutcome(refused) ==
    LET b == tx.before
        a == tx.args
    IN  IF refused
        THEN /\ tx.status = "reverted"
             /\ usedNonces = b.usedNonces
             /\ balances = b.balances
             /\ tx.emitted = <<>>
        ELSE /\ tx.status = "ok"
             /\ balances = [b.balances EXCEPT ![b.ccToken] =
                               [@ EXCEPT ![Pool] = @ - a.amount,
                                         ![a.recipient] = @ + a.amount]]
             /\ TxHash \notin b.usedNonces
             /\ usedNonces = b.usedNonces \cup {TxHash}
             /\ tx.emitted = <<"RewardClaimed", a.recipient, a.amount, a.nonce>>

\* the conditions C20 lists: recipient zero, amount zero, pool below amount,
\* hash already used, voucher not signed by owner() over this hash
ListedRefusal ==
    \/ tx.args.recipient = ZeroAddress
    \/ tx.args.amount = 0
    \/ ~PoolCovers
    \/ TxHash \in tx.before.usedNonces
    \/ ~VoucherOf(tx.before.owner)

\* C20 as stated: a claim reverts with nothing changed exactly when one of the
\* listed conditions holds, and otherwise pays out, marks its hash and emits
\* RewardClaimed
C20_TwoOutcomes ==
    (tx # NoTx /\ tx.op = "claim") => ClaimOutcome(ListedRefusal)

\* C20: a claim reverts with nothing changed exactly when the contract is
\* paused or one of the listed conditions holds, and otherwise moves the amount
\* from the pool to the recipient, marks that hash alone and emits
\* RewardClaimed(recipient, amount, nonce)
C20_TwoOutcomesWhenPausable ==
    (tx # NoTx /\ tx.op = "claim") =>
        ClaimOutcome(tx.before.paused \/ ListedRefusal)

\* a claim paid out, with its event
C20_Witness ==
    /\ tx # NoTx
    /\ tx.op = "claim"
    /\ tx.status = "ok"
    /\ tx.emitted = <<"RewardClaimed", "w1", 5000, 2>>

\* what the validation answers with
ValidationErrors ==
    {"Missing required fields: walletAddress, rewardAmount, contractAddress",
     "Reward amount must be greater than 0",
     "Invalid wallet address format"}

\* the request names no wallet or no amount (JSON null, absent and 0 are alike
\* to the handler's test), an amount <= 0, or a wallet that is no address
WalletOrAmountInvalid(req) ==
    \/ req.walletAddress = NoText
    \/ req.rewardAmount = 0
    \/ req.rewardAmount <= 0
    \/ ~isAddress(req.walletAddress)

\* C27 as stated: a request with an invalid wallet or amount is answered 400
\* by the validation and nothing is sent to the chain, and a request with a
\* well-formed wallet and a positive amount is not rejected by the validation
C27_ValidationRejectsOnlyBadWalletOrAmount ==
    drLast # NoCall =>
        /\ WalletOrAmountInvalid(drLast.req) =>
              /\ drLast.status = 400
              /\ drLast.error \in ValidationErrors
              /\ tx = NoTx
        /\ ~WalletOrAmountInvalid(drLast.req) =>
              drLast.error \notin ValidationErrors


(***************************************************************************)
(* The client's claim flow: getClaimSignature, claimRewardOnChain, the     *)
(* roulette wheel and the reward modal                                     *)
(***************************************************************************)
\* setTimeout(() => controller.abort(), 8000)
eightSeconds == 8000

\* the clock steps of the claim flow: up to the abort timer, and past it
TimerSteps == {eightSeconds, eightSeconds + 1}

\* String.prototype.includes on an error message, kept as its phrases
includes(message, phrase) == \E i \in 1..Len(message) : message[i] = phrase

\* what the wallet does with the transaction it is asked to send
WalletOutcomes == {"send", "user rejected", "insufficient funds"}

\* error.message of what the provider throws: the revert reason of the contract,
\* or the wallet's refusal
ThrownMessage(cause) ==
    IF cause = "user rejected" THEN <<"user rejected", "action">>
    ELSE IF cause = "insufficient funds"
         THEN <<"insufficient funds", "for intrinsic transaction cost">>
    ELSE <<"execution reverted", cause>>

GenericClaimError == "Failed to claim reward on-chain"

\* the catch block of claimRewardOnChain
ClaimErrorMessage(message) ==
    IF includes(message, "Nonce already used")
    THEN "This reward has already been claimed"
    ELSE IF includes(message, "Invalid signature") THEN "Invalid claim signature"
    ELSE IF includes(message, "Insufficient contract balance")
         THEN "Insufficient tokens in reward pool"
    ELSE IF includes(message, "user rejected")
         THEN "Transaction was rejected by user"
    ELSE GenericClaimError

\* a response of getClaimSignature that reports a failure
SignatureFailure(error) ==
    [success |-> FALSE, nonce |-> 0, signature |-> NoSignature, error |-> error]

\* the bodies response.json() can yield, GetClaimSignatureResponse: a voucher
\* for the submitted wallet and amount, signed by a key holder; success with
\* neither nonce nor signature; a reported failure
ClaimSignatureResponses(walletAddress, rewardAmount) ==
    {[success |-> TRUE, nonce |-> n,
      signature |-> SignHash(k, MessageHash(walletAddress, rewardAmount, n)),
      error |-> None] : n \in Nonces, k \in {ADMIN_PRIVATE_KEY}}
    \cup {[success |-> TRUE, nonce |-> 0, signature |-> NoSignature, error |-> None],
          SignatureFailure("Internal server error")}

\* an attempt starts: getClaimSignature arms its timer and sends the request
StartRun(by, amount) ==
    [NoRun EXCEPT !.by = by, !.pc = "fetch", !.amount = amount, !.start = now]

\* the attempt is over: its caller has handled this response of
\* claimRewardOnChain or this failure of getClaimSignature
EndRun(response, cause) ==
    [run EXCEPT !.pc = "idle", !.response = response, !.cause = cause]

\* a handleClaim whose failure leaves the button disabled
AfterAttemptStuck(m, success) ==
    IF m.reward = 0 THEN m
    ELSE [m EXCEPT !.claimed = success \/ m.claimed]

\* handleClaim from the response on: setClaimed(true) on success, and
\* setIsClaiming(false) in the finally block; a modal that was closed has no state
AfterAttempt(m, success) ==
    IF m.reward = 0 THEN m
    ELSE [m EXCEPT !.claimed = success \/ m.claimed, !.isClaiming = FALSE]

\* the caller's code after the await: handleSpin shows a toast and calls
\* onResult, and App.handleRouletteResult mounts the modal; handleClaim
\* updates the modal
Continue(response, cause) ==
    /\ run' = EndRun(response, cause)
    /\ IF run.by = "roulette"
       THEN /\ roulette' = "done"
            /\ modal' = [NoModal EXCEPT !.reward = run.amount]
       ELSE /\ modal' = AfterAttempt(modal, response.success)
            /\ UNCHANGED roulette

\* handleSpin, once the wheel has landed on an on-chain reward: with a wallet
\* connected it claims the reward itself before it reports the result
handleSpin(amount, connected) ==
    /\ Quiet
    /\ roulette = "ready"
    /\ IF connected
       THEN /\ roulette' = "spinning"
            /\ run' = StartRun("roulette", amount)
            /\ UNCHANGED modal
       ELSE /\ roulette' = "done"
            /\ modal' = [NoModal EXCEPT !.reward = amount, !.walletAddress = None]
            /\ UNCHANGED run
    /\ UNCHANGED <<authVars, chainVars, drVars, client, updates, app, authState, scoreVars>>

\* the Claim Tokens button: rendered while the modal has a wallet address and
\* is not claimed, disabled while isClaiming
handleClaim ==
    /\ Quiet
    /\ modal.reward > 0
    /\ modal.walletAddress # None
    /\ ~modal.claimed
    /\ ~modal.isClaiming
    /\ run.pc = "idle"
    /\ modal' = [modal EXCEPT !.isClaiming = TRUE]
    /\ run' = StartRun("modal", modal.reward)
    /\ UNCHANGED <<roulette, authVars, chainVars, drVars, client, updates, app, authState, scoreVars>>

\* the close button, or the timer set after a successful claim:
\* App.handleCloseRewardModal
handleCloseRewardModal ==
    /\ Quiet
    /\ modal.reward > 0
    /\ modal' = NoModal
    /\ UNCHANGED <<roulette, run, authVars, chainVars, drVars, client, updates, app, authState, scoreVars>>

\* time passes; the abort timer of a pending fetch fires at eight seconds, so
\* the clock does not pass that moment while the fetch is pending
ClaimTick(d) ==
    /\ run.pc = "fetch" => now + d <= run.start + eightSeconds
    /\ Tick(d)

\* fetch settles before the timer: response headers, or a network error.
\* clearTimeout follows the headers; a response that is not ok is thrown
FetchSettles(outcome) ==
    /\ Quiet
    /\ run.pc = "fetch"
    /\ IF outcome = "ok"
       THEN /\ run' = [run EXCEPT !.pc = "body"]
            /\ UNCHANGED <<roulette, modal>>
       ELSE Continue(SignatureFailure("Failed to get claim signature"), None)
    /\ UNCHANGED <<authVars, chainVars, drVars, client, updates, app, authState, scoreVars>>

\* controller.abort(): fetch rejects with an AbortError
FetchAborts ==
    /\ Quiet
    /\ run.pc = "fetch"
    /\ now >= run.start + eightSeconds
    /\ Continue(SignatureFailure("Request timeout - please try again"), None)
    /\ UNCHANGED <<authVars, chainVars, drVars, client, updates, app, authState, scoreVars>>

\* response.json() resolves and getClaimSignature returns the body; the caller
\* throws unless it reports success
BodyArrives(data) ==
    /\ Quiet
    /\ run.pc = "body"
    /\ IF data.success
       THEN /\ run' = [run EXCEPT !.pc = "claim", !.data = data]
            /\ UNCHANGED <<roulette, modal>>
       ELSE Continue(data, None)
    /\ vouchers' = IF data.signature # NoSignature
                   THEN vouchers \cup {data.signature} ELSE vouchers
    /\ UNCHANGED <<owner, paused, ccToken, balances, usedNonces, redeemed, txs, tx,
                   authVars, drVars, client, updates, app, authState, scoreVars>>

\* claimRewardOnChain and the caller's code after it
claimRewardOnChain(isFarcaster, wallet) ==
    LET recipient == "w1"
        amount == run.amount
        nonce == run.data.nonce
        signature == run.data.signature
        isUsed == MessageHash(recipient, amount, nonce) \in usedNonces
        check == ClaimCheck(recipient, amount, nonce, signature)
        failed(message, cause) ==
            /\ Continue([success |-> FALSE, error |-> message], cause)
            /\ UNCHANGED chainVars
    IN  /\ Quiet
        /\ run.pc = "claim"
        /\ IF nonce = 0 \/ signature = NoSignature
           THEN failed("Missing required fields: signer, recipient, amount, nonce, signature, contractAddress", None)
           ELSE IF ~isFarcaster /\ isUsed
           THEN failed("This reward has already been claimed", "Nonce already used")
           ELSE IF wallet # "send"
           THEN failed(ClaimErrorMessage(ThrownMessage(wallet)), wallet)
           ELSE /\ txs < MaxTxs
                /\ ClaimEffect(recipient, amount, nonce, signature)
                /\ UNCHANGED vouchers
                /\ IF check = "ok"
                   THEN Continue([success |-> TRUE, error |-> None], None)
                   ELSE Continue([success |-> FALSE,
                                  error |-> ClaimErrorMessage(ThrownMessage(check))],
                                 check)
        /\ UNCHANGED <<authVars, drVars, client, updates, app, authState, scoreVars>>

\* one reward event of a player, with the owner of the contract acting on the
\* chain meanwhile
NextClaim ==
    \/ \E d \in TimerSteps : ClaimTick(d)
    \/ \E a \in RewardAmounts : \E connected \in BOOLEAN : handleSpin(a, connected)
    \/ handleClaim
    \/ handleCloseRewardModal
    \/ \E outcome \in {"ok", "http error", "network error"} : FetchSettles(outcome)
    \/ FetchAborts
    \/ \E data \in ClaimSignatureResponses("w1", run.amount) : BodyArrives(data)
    \/ \E isFarcaster \in BOOLEAN : \E wallet \in WalletOutcomes :
         claimRewardOnChain(isFarcaster, wallet)
    \/ \E a \in RewardAmounts : withdrawTokens(ADMIN_PRIVATE_KEY, a)
    \/ transferOwnership(ADMIN_PRIVATE_KEY, "w1")
    \/ TxSeen

SpecClaim == Init /\ [][NextClaim]_vars


(***************************************************************************)
(* Properties of the claim flow                                            *)
(***************************************************************************)
\* the failure causes of a claim on-chain: the three reverts of the contract
\* and the two refusals of the wallet
OnChainCauses == {"Invalid signature", "Nonce already used",
                  "Insufficient contract balance", "user rejected",
                  "insufficient funds"}

\* C22: claimRewardOnChain reports each on-chain failure cause (wrong signer,
\* reused nonce, underfunded pool, rejection in the wallet, insufficient funds
\* for gas) with a message of its own: never with the generic 'Failed to claim
\* reward on-chain', never with the message of another cause
C22_EachCauseOwnMessage ==
    (run.pc = "idle" /\ run.cause \in OnChainCauses) =>
        /\ run.response.error # GenericClaimError
        /\ \A c \in OnChainCauses \ {run.cause} :
              run.response.error # ClaimErrorMessage(ThrownMessage(c))


\* C21: a getClaimSignature call always terminates with a response object: a
\* call whose response has not come within 8 seconds is aborted and returns the
\* timeout failure, so no call is still pending after more than 8 seconds
C21_PendingCallWithinEightSeconds ==
    run.pc \in {"fetch", "body"} => now - run.start <= eightSeconds


AttemptFails ==
    /\ run.by = "modal"
    /\ run.pc # "idle"
    /\ run'.pc = "idle"
    /\ ~run'.response.success

\* C24: after a failed claim attempt (the voucher request failed or timed out,
\* the wallet rejected, the contract reverted) the modal still holds the reward
\* with claimed = false and isClaiming = false, so that the Claim Tokens button
\* is there and enabled for another attempt
C24_FailedAttemptLeavesClaimOpen ==
    [][(AttemptFails /\ modal.reward > 0) =>
          /\ modal'.reward = modal.reward
          /\ modal'.walletAddress # None
          /\ ~modal'.claimed
          /\ ~modal'.isClaiming]_vars

\* the contract reverted the claim of the modal, and the modal is open for
\* another attempt
C24_Witness ==
    /\ run.by = "modal"
    /\ run.pc = "idle"
    /\ ~run.response.success
    /\ run.cause = "Insufficient contract balance"
    /\ tx # NoTx
    /\ tx.status = "reverted"
    /\ modal.reward > 0
    /\ ~modal.claimed
    /\ ~modal.isClaiming


(***************************************************************************)
(* Signing in from the App component: useWallet's useAuth instance         *)
(* authenticates, App's own useAuth instance supplies user                 *)
(***************************************************************************)
\* error.message of the wallet when the user declines to sign
UserRejected == "user rejected"

\* a decline that leaves the hook loading
SignRejectedStillLoading(s) == [s EXCEPT !.authError = UserRejected, !.loading = TRUE]

\* authenticateWithWallet when signer.signMessage rejects: the catch block sets
\* authError, the finally block sets loading to false
SignRejected(s) == [s EXCEPT !.authError = UserRejected, !.loading = FALSE]

\* authenticateWithWallet, the user declining to sign: signMessage throws
\* before the fetch, so nothing is sent
authenticateDeclined(c) ==
    /\ last = NoCall
    /\ authState' = [authState EXCEPT ![c] = SignRejected(authState[c])]
    /\ UNCHANGED <<authVars, client, updates, claimVars, scoreVars, app, chainVars, drVars>>

\* checkSession of App's useAuth instance, run once when App mounts
checkSessionApp(c) ==
    /\ last = NoCall
    /\ ~app[c].checked
    /\ \E error \in BOOLEAN :
        LET sessionToken == client[c].token
            sessionData == ParseToken(sessionToken)
            profile == ProfileById(sessionData.userId)
        IN  IF sessionToken = NoToken
            THEN /\ app' = [app EXCEPT ![c].checked = TRUE]
                 /\ UNCHANGED client
            ELSE IF sessionData.expiresAt > now /\ ~error /\ profile # NoRow
            THEN /\ app' = [app EXCEPT ![c] = [user |-> profile, checked |-> TRUE]]
                 /\ UNCHANGED client
            ELSE /\ app' = [app EXCEPT ![c].checked = TRUE]
                 /\ client' = [client EXCEPT ![c].token = NoToken]
    /\ UNCHANGED <<authVars, updates, claimVars, scoreVars, authState, chainVars, drVars>>

\* who won the game that ends
Winners == {"player", "bot", "draw"}

\* App.handleGameEnd: a game won or drawn is reported with updateUserStats when
\* isAuthenticated, of useWallet, and user, of App's useAuth, are both set
handleGameEnd(c, winner) ==
    /\ last = NoCall
    /\ updates < MaxUpdates
    /\ \E error \in BOOLEAN :
        LET user == app[c].user
            wins == IF winner = "player" THEN 1 ELSE 0
        IN  IF winner # "bot" /\ client[c].isAuthenticated /\ user # NoRow
            THEN /\ updates' = updates + 1
                 /\ IF error
                    THEN UNCHANGED <<user_profiles, app>>
                    ELSE /\ user_profiles' = StatsTable(user, 1, wins, 0)
                         /\ app' = [app EXCEPT ![c].user = StatsUser(user, 1, wins, 0)]
            ELSE UNCHANGED <<user_profiles, app, updates>>
    /\ UNCHANGED <<now, ticks, signed, auth_sessions, nextId, calls, handler, last,
                   consumed, client, claimVars, scoreVars, authState, chainVars, drVars>>

\* one browser: the player signs in or declines, plays, closes the page and
\* comes back
NextApp ==
    \/ Tick(fiveMinutes)
    \/ SignChallenge("w1")
    \/ \E body \in ClientBodies : AuthValidate(1, body)
    \/ AuthLookup(1) \/ AuthUpdate(1) \/ AuthInsert(1) \/ AuthSession(1)
    \/ AuthRespond
    \/ ClientReceive("c1")
    \/ authenticateDeclined("c1")
    \/ PageClose("c1")
    \/ checkSession("c1")
    \/ checkSessionApp("c1")
    \/ \E winner \in Winners : handleGameEnd("c1", winner)

SpecApp == Init /\ [][NextApp]_vars

\* one browser: the player signs in or declines, closes the page and comes back
NextDecline ==
    \/ SignChallenge("w1")
    \/ \E body \in ClientBodies : AuthValidate(1, body)
    \/ AuthLookup(1) \/ AuthUpdate(1) \/ AuthInsert(1) \/ AuthSession(1)
    \/ AuthRespond
    \/ ClientReceive("c1")
    \/ authenticateDeclined("c1")
    \/ PageClose("c1")
    \/ checkSession("c1")

SpecDecline == Init /\ [][NextDecline]_vars

(***************************************************************************)
(* Properties of signing in from the App component                         *)
(***************************************************************************)
\* C25: when the user declines to sign the challenge, the flow stops there: no
\* request reaches the Authentication Service, no identity or session row is
\* created, the stored session token is unchanged, isAuthenticated is not set
\* to true, and loading is false again
C25_DeclineStopsTheFlow ==
    [][\A c \in Clients :
          (authState'[c] # authState[c] /\ authState'[c].authError = UserRejected) =>
              /\ calls' = calls
              /\ handler' = handler
              /\ last' = last
              /\ user_profiles' = user_profiles
              /\ auth_sessions' = auth_sessions
              /\ client'[c].token = client[c].token
              /\ client'[c].isAuthenticated = client[c].isAuthenticated
              /\ ~authState'[c].loading]_vars

\* the user has declined on a freshly loaded page that holds a stored session
C25_Witness ==
    /\ authState["c1"].authError = UserRejected
    /\ ~authState["c1"].loading
    /\ ~client["c1"].isAuthenticated
    /\ client["c1"].token # NoToken
    /\ auth_sessions # {}

\* C29: in App, whenever isAuthenticated, of useWallet's useAuth instance, is
\* true, the user of App's own useAuth call is set, so that a game won or drawn
\* after a sign-in on the same page reaches updateUserStats
C29_AuthenticatedHasUser ==
    \A c \in Clients :
        (client[c].isAuthenticated /\ app[c].checked) => app[c].user # NoRow


(***************************************************************************)
(* ScoreRecorder                                                           *)
(***************************************************************************)
\* uint256 public constant MAX_HISTORY_LENGTH = 10
MAX_HISTORY_LENGTH == 10

\* scores recorded by the player under study
MaxGames == 11

\* blocks mined after the first
MaxBlocks == 1

\* two scores the contract accepts, and one above 100
Scores == {40, 100, 101}

\* a history that drops the new record when it is full
KeepOldest(history, newRecord) == history

\* the loop of recordScore on a full history: every record moves one place
\* down and the new record takes the last place
ShiftIn(history, newRecord) ==
    [i \in 1..Len(history) |-> IF i < Len(history) THEN history[i + 1] ELSE newRecord]

\* recordScore, called by player; a revert changes nothing
recordScore(player, score, playerName) ==
    LET isNewPlayer == totalGamesPlayed[player] = 0
        gameNumber == totalGamesPlayed[player] + 1
        timestamp == blockTimestamp
        newRecord == [score |-> score, timestamp |-> timestamp,
                      gameNumber |-> gameNumber]
        newHigh == score > highestScore[player]
    IN  /\ Quiet
        /\ last = NoCall
        /\ totalGamesPlayed[player] < MaxGames
        /\ player = "w1" \/ totalScoresRecorded = 0
        /\ IF ~(score <= 100) \/ playerName = NoText
           THEN UNCHANGED scoreVars
           ELSE /\ playerScores' = [playerScores EXCEPT ![player] =
                       IF Len(@) >= MAX_HISTORY_LENGTH
                       THEN ShiftIn(@, newRecord)
                       ELSE Append(@, newRecord)]
                /\ playerStats' = [playerStats EXCEPT ![player] =
                       [totalGames |-> gameNumber,
                        highestScore |-> IF newHigh THEN score ELSE @.highestScore,
                        totalScore |-> @.totalScore + score,
                        lastGameTimestamp |-> timestamp]]
                /\ totalGamesPlayed' = [totalGamesPlayed EXCEPT ![player] = gameNumber]
                /\ totalScoresRecorded' = totalScoresRecorded + 1
                /\ uniquePlayers' = IF isNewPlayer THEN uniquePlayers + 1
                                    ELSE uniquePlayers
                /\ highestScore' = IF newHigh
                                   THEN [highestScore EXCEPT ![player] = score]
                                   ELSE highestScore
                /\ scoreLog' = [scoreLog EXCEPT ![player] =
                       Append(@, <<"ScoreRecorded", player, playerName, score,
                                   timestamp, gameNumber>>)]
                /\ UNCHANGED blockTimestamp
        /\ UNCHANGED <<authVars, chainVars, drVars, client, updates, claimVars, app,
                       authState>>

\* the next block: block.timestamp moves on
NewBlock ==
    /\ Quiet
    /\ last = NoCall
    /\ blockTimestamp < Epoch \div 1000 + MaxBlocks
    /\ blockTimestamp' = blockTimestamp + 1
    /\ UNCHANGED <<playerScores, playerStats, totalGamesPlayed, highestScore,
                   totalScoresRecorded, uniquePlayers, scoreLog>>
    /\ UNCHANGED <<authVars, chainVars, drVars, client, updates, claimVars, app,
                   authState>>

\* a player records game after game, after another player has or has not
\* recorded the first score of all; a block may hold several records
NextScore ==
    \/ \E player \in Holders : \E score \in Scores :
          \E playerName \in {NoText, <<"A", "n", "n">>} :
             recordScore(player, score, playerName)
    \/ NewBlock

SpecScore == Init /\ [][NextScore]_vars

(***************************************************************************)
(* Properties of ScoreRecorder                                             *)
(***************************************************************************)
\* the record kept for a ScoreRecorded event
RecordOf(event) == [score |-> event[4], timestamp |-> event[5], gameNumber |-> event[6]]

\* C30: after any sequence of recordScore calls, playerScores[player] holds at
\* most MAX_HISTORY_LENGTH records: the player's most recent min(n, 10) records
\* in the order they were recorded, with consecutive gameNumbers ending at
\* n = totalGamesPlayed[player], the number of scores the player ever recorded
C30_HistoryIsLastTen ==
    \A player \in Holders :
        LET n == totalGamesPlayed[player]
            history == playerScores[player]
            kept == IF n < MAX_HISTORY_LENGTH THEN n ELSE MAX_HISTORY_LENGTH
        IN  /\ n = Len(scoreLog[player])
            /\ Len(history) = kept
            /\ Len(history) <= MAX_HISTORY_LENGTH
            /\ \A i \in 1..kept :
                  /\ history[i] = RecordOf(scoreLog[player][n - kept + i])
                  /\ history[i].gameNumber = n - kept + i
                  /\ i < kept => history[i].timestamp <= history[i + 1].timestamp

\* the player has recorded one score more than the history holds
C30_Witness ==
    /\ totalGamesPlayed["w1"] = MAX_HISTORY_LENGTH + 1
    /\ Len(playerScores["w1"]) = MAX_HISTORY_LENGTH
    /\ playerScores["w1"][1].gameNumber = 2
    /\ playerScores["w1"][1].timestamp < playerScores["w1"][MAX_HISTORY_LENGTH].timestamp
    /\ playerScores["w1"][1].score # playerScores["w1"][MAX_HISTORY_LENGTH].score
    /\ totalGamesPlayed["w2"] = 1

====
